---- MODULE Spec2Model ----
(***************************************************************************)
(* Free-tier access control, quota ledger and conversation ownership of    *)
(* the Flask backend (src/auth.py, src/security_utils.py, src/app.py).     *)
(*                                                                         *)
(* Time is counted in seconds.  A NULL column / missing cookie / Python    *)
(* None is the string NULL; an absent dict (free_info = None) is <<>>.     *)
(***************************************************************************)
EXTENDS Integers, Sequences, FiniteSets, TLC

\* ---------------------------------------------------------------- bounds
MaxInFlight == 2      \* /chat requests in flight at once
MaxChats == 2         \* /chat requests started in one behaviour
MaxTokens == 1        \* uuid4 tokens generated in one behaviour
MaxConvs == 2         \* conversations created in one behaviour

\* ------------------------------------------------------ program constants
FREE_QUERY_LIMIT == 10
RESET_HOURS == 24

NULL == "null"
Window == RESET_HOURS * 3600
Procs == 1..MaxInFlight

Max(a, b) == IF a >= b THEN a ELSE b
Max3(a, b, c) == Max(a, Max(b, c))

\* ------------------------------------------------------------- the callers
\* Three browsers.  "a" connects directly from ip1; "b" sits behind a proxy
\* that forwards ip1 and sends a User-Agent with the same first 200
\* characters as "a"; "c" comes from ip2 through a CDN.
Clients == {"a", "b", "c"}

Headers(c) ==
    CASE c = "a" -> [cf |-> NULL, xff |-> <<>>, xreal |-> NULL, remote |-> "ip1"]
      [] c = "b" -> [cf |-> NULL, xff |-> <<"ip1", "proxy">>, xreal |-> "proxy",
                     remote |-> "proxy"]
      [] OTHER   -> [cf |-> "ip2", xff |-> <<"edge">>, xreal |-> NULL, remote |-> "edge"]

\* A User-Agent header is <<its first 200 characters, the rest>>.
UserAgent(c) ==
    CASE c = "a" -> <<"h1", "">>
      [] c = "b" -> <<"h1", "x">>
      [] OTHER   -> <<"h2", "">>

get_client_ip(h) ==
    IF h.cf # NULL THEN h.cf
    ELSE IF h.xff # <<>> THEN Head(h.xff)
    ELSE IF h.xreal # NULL THEN h.xreal
    ELSE h.remote

ClientIP(c) == get_client_ip(Headers(c))

\* sha256(ip + ":" + user_agent[:200])[:32], an injective digest of the pair.
get_tracking_key(ip, ua) == <<ip, ua[1]>>

\* uuid4(): the n-th token generated in a behaviour; "t1", "t2" were generated
\* before it starts.
TokenNames == <<"u1", "u2", "u3", "u4">>
Token(n) == TokenNames[n]

\* A nullable user_id column: <<>> is NULL, <<ip>> is "auth_" + sha256(ip)[:16].
NullUser == <<>>
principal_id(ip) == <<ip>>

Day(t) == t \div 86400

VARIABLES
    auth_password,   \* os.getenv('AUTH_PASSWORD'): NULL or the password
    now,             \* datetime.utcnow(), in seconds
    ledger,          \* free_access_logs: sequence of rows, in commit order
    summary,         \* ip_usage_summary: set of rows, unique on (ip_address, date)
    whitelist,       \* ip_whitelist: set of rows, unique on ip_address
    conversations,   \* conversations: set of rows
    client,          \* per browser: the Flask session and the session_id cookie
    req,             \* per worker slot: the /chat request it is serving
    ntok,            \* uuid4 tokens generated so far
    nchat,           \* /chat requests started so far
    resp             \* the last response sent

vars == <<auth_password, now, ledger, summary, whitelist, conversations,
          client, req, ntok, nchat, resp>>

\* ------------------------------------------------------------ FreeAccessManager
whitelist_entries(ip, W) == {e \in W : e.ip_address = ip /\ e.is_active}

is_whitelisted(ip, W) == whitelist_entries(ip, W) # {}

whitelist_entry(ip, W) == CHOOSE e \in whitelist_entries(ip, W) : TRUE

\* session['free_session_id'], created when missing; fresh is the uuid4 drawn.
get_session_id(free_sid, fresh) == IF free_sid = NULL THEN fresh ELSE free_sid

\* A sum that leaves out the rows stamped exactly at the cutoff.
RECURSIVE usage_sum_strict(_, _, _, _)
usage_sum_strict(L, col, val, cutoff) ==
    IF L = <<>> THEN 0
    ELSE (IF Head(L)[col] = val /\ Head(L).timestamp > cutoff
             THEN Head(L).query_count ELSE 0)
         + usage_sum_strict(Tail(L), col, val, cutoff)

\* coalesce(sum(query_count), 0) over the rows whose column col equals val and
\* whose timestamp >= cutoff.
RECURSIVE usage_sum(_, _, _, _)
usage_sum(L, col, val, cutoff) ==
    IF L = <<>> THEN 0
    ELSE (IF Head(L)[col] = val /\ Head(L).timestamp >= cutoff
             THEN Head(L).query_count ELSE 0)
         + usage_sum(Tail(L), col, val, cutoff)

unlimited_status(ip, W, t) ==
    [has_access |-> TRUE, queries_used |-> 0, queries_remaining |-> 999,
     limit |-> 999, reset_time |-> t + 24 * 3600, hours_until_reset |-> 24,
     whitelisted |-> TRUE,
     whitelist_description |-> whitelist_entry(ip, W).description]

\* A usage that looks at the session cookie alone.
max_usage_session_only(session_usage, ip_usage, tracking_usage) == session_usage

max_usage(session_usage, ip_usage, tracking_usage) ==
    Max3(session_usage, ip_usage, tracking_usage)

\* A quota that still admits a caller standing at the limit.
quota_status_inclusive(ip, ua, sid, L, t) ==
    LET cutoff_time == t - Window
        used == Max3(usage_sum(L, "session_id", sid, cutoff_time),
                     usage_sum(L, "ip_address", ip, cutoff_time),
                     usage_sum(L, "tracking_key", get_tracking_key(ip, ua), cutoff_time))
        remaining == Max(0, FREE_QUERY_LIMIT - used)
    IN  [has_access |-> used <= FREE_QUERY_LIMIT, queries_used |-> used,
         queries_remaining |-> remaining, limit |-> FREE_QUERY_LIMIT,
         reset_time |-> t, hours_until_reset |-> 0, whitelisted |-> FALSE,
         tracking_method |-> [session |-> used, ip |-> used, key |-> used,
                              max |-> used]]

\* A quota whose reset is announced a full window after the check.
quota_status_next_day(ip, ua, sid, L, t) ==
    LET used == Max3(usage_sum(L, "session_id", sid, t - Window),
                     usage_sum(L, "ip_address", ip, t - Window),
                     usage_sum(L, "tracking_key", get_tracking_key(ip, ua), t - Window))
        remaining == Max(0, FREE_QUERY_LIMIT - used)
    IN  [has_access |-> remaining > 0, queries_used |-> used,
         queries_remaining |-> remaining, limit |-> FREE_QUERY_LIMIT,
         reset_time |-> t + Window, hours_until_reset |-> RESET_HOURS,
         whitelisted |-> FALSE,
         tracking_method |-> [session |-> usage_sum(L, "session_id", sid, t - Window),
                              ip |-> usage_sum(L, "ip_address", ip, t - Window),
                              key |-> usage_sum(L, "tracking_key",
                                                get_tracking_key(ip, ua), t - Window),
                              max |-> used]]

quota_status(ip, ua, sid, L, t) ==
    LET tracking_key == get_tracking_key(ip, ua)
        cutoff_time == t - Window
        session_usage == usage_sum(L, "session_id", sid, cutoff_time)
        ip_usage == usage_sum(L, "ip_address", ip, cutoff_time)
        tracking_usage == usage_sum(L, "tracking_key", tracking_key, cutoff_time)
        used == max_usage(session_usage, ip_usage, tracking_usage)
        remaining == Max(0, FREE_QUERY_LIMIT - used)
        reset_time == cutoff_time + Window
    IN  [has_access |-> remaining > 0, queries_used |-> used,
         queries_remaining |-> remaining, limit |-> FREE_QUERY_LIMIT,
         reset_time |-> reset_time,
         hours_until_reset |-> Max(0, (reset_time - t) \div 3600),
         whitelisted |-> FALSE,
         tracking_method |-> [session |-> session_usage, ip |-> ip_usage,
                              key |-> tracking_usage, max |-> used]]

\* A bypass that still honours the quota.
check_free_access_quota_first(ip, ua, sid, L, W, t) ==
    IF is_whitelisted(ip, W) /\ quota_status(ip, ua, sid, L, t).has_access
    THEN unlimited_status(ip, W, t)
    ELSE quota_status(ip, ua, sid, L, t)

\* check_free_access for the caller (ip, ua) whose session id resolves to sid.
check_free_access(ip, ua, sid, L, W, t) ==
    IF is_whitelisted(ip, W) THEN unlimited_status(ip, W, t)
    ELSE quota_status(ip, ua, sid, L, t)

\* ------------------------------------------------------------------ SimpleAuth
is_auth_enabled(pw) == pw # NULL

is_authenticated(pw, sess_auth) ==
    IF ~is_auth_enabled(pw) THEN TRUE ELSE sess_auth

verify_password(pw, password) ==
    IF pw = NULL THEN TRUE ELSE password = pw

\* A gate that lets every unauthenticated caller in as free_tier.
has_access_lenient(pw, sess_auth, ip, ua, sid, L, W, t) ==
    IF is_authenticated(pw, sess_auth)
    THEN [allowed |-> TRUE, access_type |-> "authenticated", free_info |-> <<>>,
          reads |-> {}]
    ELSE [allowed |-> TRUE, access_type |-> "free_tier",
          free_info |-> <<check_free_access(ip, ua, sid, L, W, t)>>,
          reads |-> {"ip_whitelist", "free_access_logs"}]

\* (allowed, access_type, free_info); reads lists the tables consulted.
has_access(pw, sess_auth, ip, ua, sid, L, W, t) ==
    IF is_authenticated(pw, sess_auth)
    THEN [allowed |-> TRUE, access_type |-> "authenticated", free_info |-> <<>>,
          reads |-> {}]
    ELSE IF ~is_auth_enabled(pw)
    THEN [allowed |-> TRUE, access_type |-> "no_auth", free_info |-> <<>>,
          reads |-> {}]
    ELSE LET free_access == check_free_access(ip, ua, sid, L, W, t)
             reads == IF is_whitelisted(ip, W) THEN {"ip_whitelist"}
                      ELSE {"ip_whitelist", "free_access_logs"}
         IN  IF free_access.has_access
             THEN [allowed |-> TRUE, access_type |-> "free_tier",
                   free_info |-> <<free_access>>, reads |-> reads]
             ELSE [allowed |-> FALSE, access_type |-> "no_access",
                   free_info |-> <<free_access>>, reads |-> reads]

\* The error text of access_required's 403: free_info is <<>> or <<status>>;
\* hours_until_reset holds whole hours, so the minutes left over are none.
denial_message(free_info) ==
    IF free_info = <<>>
    THEN [text |-> "Access denied", hours |-> 0, minutes |-> 0, with_hours |-> FALSE]
    ELSE LET hours == free_info[1].hours_until_reset
             minutes == ((free_info[1].hours_until_reset * 60) % 60)
         IN  [text |-> "Daily free queries exhausted. Access will reset in",
              hours |-> hours, minutes |-> minutes, with_hours |-> hours > 0]

\* A wrapper that asks only whether a password is configured.
login_required_open(pw, sess_auth) == is_auth_enabled(pw)

\* login_required: whether the wrapped handler runs.
login_required(pw, sess_auth) == is_authenticated(pw, sess_auth)

\* ------------------------------------------------------------------- the start
Rep(n, r) == [i \in 1..n |-> r]

LogRow(sid, ip, ua, ts) ==
    [session_id |-> sid, ip_address |-> ip, tracking_key |-> get_tracking_key(ip, ua),
     query_count |-> 1, timestamp |-> ts]

\* Ledgers left by earlier, sequential free-tier traffic: no session, IP or
\* tracking key has more than FREE_QUERY_LIMIT rows.
HistNine == Rep(9, LogRow("t1", "ip1", <<"h1", "">>, 1))

HistTen ==
    Rep(1, LogRow("t1", "ip1", <<"h1", "">>, 0))
        \o Rep(9, LogRow("t1", "ip1", <<"h1", "">>, 1))

\* ip1 shared with another browser, and session t1 seen from another network.
HistShared ==
    Rep(4, LogRow("t1", "ip1", <<"h1", "">>, 1))
        \o Rep(5, LogRow("t0", "ip1", <<"h3", "">>, 1))
        \o Rep(4, LogRow("t1", "ip3", <<"h1", "">>, 1))

\* session t2 roaming between ip3 and ip2.
HistRoaming ==
    Rep(6, LogRow("t2", "ip3", <<"h2", "">>, 1))
        \o Rep(3, LogRow("t2", "ip2", <<"h2", "">>, 0))

InitHistories == {<<>>, HistNine, HistTen, HistShared, HistRoaming}

\* One request of ip1 already logged on the day the behaviour starts.
HistToday == Rep(1, LogRow("t1", "ip1", <<"h1", "">>, Window))

InitWhitelists ==
    { {},
      {[id |-> 1, ip_address |-> "ip1", description |-> "Demo Access",
        created_by |-> "admin", is_active |-> TRUE]},
      {[id |-> 1, ip_address |-> "ip2", description |-> "Demo office",
        created_by |-> "admin", is_active |-> FALSE]} }

RECURSIVE day_total(_, _, _)
day_total(L, ip, d) ==
    IF L = <<>> THEN 0
    ELSE (IF Head(L).ip_address = ip /\ Day(Head(L).timestamp) = d THEN 1 ELSE 0)
         + day_total(Tail(L), ip, d)

\* The ip_usage_summary rows that sequential logging of L leaves.
summary_of(L) ==
    { [ip_address |-> L[i].ip_address, date |-> Day(L[i].timestamp),
       total_queries |-> day_total(L, L[i].ip_address, Day(L[i].timestamp))]
      : i \in 1..Len(L) }

IdleReq ==
    [pc |-> "idle", client |-> NULL, access_type |-> NULL, gate_info |-> <<>>,
     reads |-> {}, free_info |-> <<>>, sess_auth |-> FALSE, free_sid |-> NULL,
     modified |-> FALSE,
     sid |-> NULL, snap |-> -1, log_ts |-> 0, logged |-> 0,
     target |-> NULL, description |-> NULL]

NoResp ==
    [endpoint |-> "none", client |-> NULL, status |-> 0, ran |-> FALSE,
     sess_auth |-> FALSE, access_type |-> NULL, free_info |-> <<>>, reads |-> {},
     logged |-> 0, llm |-> "none", listed |-> {}, identity |-> <<>>,
     target |-> NULL, prior |-> NULL, message |-> NULL]

InitFrom(Histories) ==
    /\ auth_password \in {NULL, "secret"}
    /\ now = Window
    /\ ledger \in Histories
    /\ summary = summary_of(ledger)
    /\ whitelist \in InitWhitelists
    /\ conversations = {}
    /\ client = [c \in Clients |->
                   [authenticated |-> FALSE,
                    free_session_id |-> CASE c = "a" -> "t1" [] c = "b" -> NULL
                                          [] OTHER -> "t2",
                    cookie_sid |-> NULL]]
    /\ req = [p \in Procs |-> IdleReq]
    /\ ntok = 0
    /\ nchat = 0
    /\ resp = NoResp

Init == InitFrom(InitHistories)

\* ---------------------------------------------------------------- the session
\* The Flask session is a signed cookie: a request works on its own copy and the
\* response writes the whole copy back when the request modified it.
save_session(c, sess_auth, free_sid, modified) ==
    IF modified
    THEN [client EXCEPT ![c].authenticated = sess_auth,
                        ![c].free_session_id = free_sid]
    ELSE client

\* ------------------------------------------------------------------ POST /chat
\* access_required(allow_free=True) around chat(), up to the handler's check of
\* the JSON body.  body: "ok", "missing" (no message or model), "nonjson".
ChatGate(p, c, body) ==
    /\ req[p].pc = "idle"
    /\ \A q \in Procs : q < p => req[q].pc # "idle"   \* the first free worker
    /\ nchat < MaxChats
    /\ LET ip == ClientIP(c)
           ua == UserAgent(c)
           sess == client[c]
           consults == ~is_authenticated(auth_password, sess.authenticated)
                       /\ is_auth_enabled(auth_password)
           draws == consults /\ ~is_whitelisted(ip, whitelist)
                    /\ sess.free_session_id = NULL
           free_sid == IF draws THEN Token(ntok + 1) ELSE sess.free_session_id
           sid == get_session_id(sess.free_session_id, free_sid)
           gate == has_access(auth_password, sess.authenticated, ip, ua, sid,
                              ledger, whitelist, now)
           answer == [NoResp EXCEPT !.endpoint = "chat", !.client = c,
                                    !.sess_auth = sess.authenticated,
                                    !.access_type = gate.access_type,
                                    !.free_info = gate.free_info,
                                    !.reads = gate.reads]
       IN  /\ draws => ntok < MaxTokens
           /\ ntok' = IF draws THEN ntok + 1 ELSE ntok
           /\ nchat' = nchat + 1
           /\ IF ~gate.allowed
              THEN /\ resp' = [answer EXCEPT !.status = IF body = "nonjson" THEN 302
                                                         ELSE 403]
                   /\ client' = save_session(c, sess.authenticated, free_sid, draws)
                   /\ req' = req
              ELSE IF body # "ok"
              THEN \* a body that is not JSON: get_json() gives None (400) or
                   \* raises into the except clause (500), by Flask version
                   /\ \E st \in (IF body = "nonjson" THEN {400, 500} ELSE {400}) :
                         resp' = [answer EXCEPT !.status = st, !.ran = TRUE]
                   /\ client' = save_session(c, sess.authenticated, free_sid, draws)
                   /\ req' = req
              ELSE /\ req' = [req EXCEPT ![p] =
                                [IdleReq EXCEPT
                                   !.pc = IF gate.access_type = "free_tier"
                                          THEN "log" ELSE "llm",
                                   !.client = c,
                                   !.access_type = gate.access_type,
                                   !.gate_info = gate.free_info,
                                   !.reads = gate.reads,
                                   !.sess_auth = sess.authenticated,
                                   !.free_sid = free_sid,
                                   !.modified = draws]]
                   /\ UNCHANGED <<client, resp>>
    /\ UNCHANGED <<auth_password, now, ledger, summary, whitelist, conversations>>

\* log_free_query up to the read of today's ip_usage_summary row: the whitelist
\* lookup, the new row added to the transaction (flushed, with its timestamp, by
\* the query that follows) and the summary row loaded.
ChatLogBegin(p) ==
    /\ req[p].pc = "log"
    /\ LET r == req[p]
           ip == ClientIP(r.client)
           ua == UserAgent(r.client)
           draws == r.free_sid = NULL
           free_sid == IF draws THEN Token(ntok + 1) ELSE r.free_sid
           rows == {s \in summary : s.ip_address = ip /\ s.date = Day(now)}
       IN  IF is_whitelisted(ip, whitelist)
           THEN /\ req' = [req EXCEPT ![p].pc = "llm",
                              ![p].free_info =
                                  <<check_free_access(ip, ua, NULL, ledger, whitelist, now)>>]
                /\ ntok' = ntok
           ELSE /\ draws => ntok < MaxTokens
                /\ ntok' = IF draws THEN ntok + 1 ELSE ntok
                /\ req' = [req EXCEPT ![p].pc = "commit",
                              ![p].free_sid = free_sid,
                              ![p].modified = r.modified \/ draws,
                              ![p].sid = get_session_id(r.free_sid, free_sid),
                              ![p].log_ts = now,
                              ![p].snap = IF rows = {} THEN -1
                                          ELSE (CHOOSE s \in rows : TRUE).total_queries]
    /\ UNCHANGED <<auth_password, now, ledger, summary, whitelist, conversations,
                   client, nchat, resp>>

\* The summary rows after the upsert computed from the row loaded earlier.
upsert_summary(S, ip, d, snap) ==
    IF snap = -1
    THEN S \cup {[ip_address |-> ip, date |-> d, total_queries |-> 1]}
    ELSE {IF s.ip_address = ip /\ s.date = d
          THEN [s EXCEPT !.total_queries = snap + 1] ELSE s : s \in S}

\* A row that counts a request twice.
log_entry_double(sid, ip, ua, ts) ==
    [session_id |-> sid, ip_address |-> ip, tracking_key |-> get_tracking_key(ip, ua),
     query_count |-> 2, timestamp |-> ts]

\* The row log_free_query inserts.
log_entry(sid, ip, ua, ts) ==
    [session_id |-> sid, ip_address |-> ip, tracking_key |-> get_tracking_key(ip, ua),
     query_count |-> 1, timestamp |-> ts]

\* A log_free_query that returns the status read before its row was committed.
ChatLogCommitStale(p) ==
    /\ req[p].pc = "commit"
    /\ LET r == req[p]
           ip == ClientIP(r.client)
           ua == UserAgent(r.client)
           d == Day(r.log_ts)
           L == Append(ledger, log_entry(r.sid, ip, ua, r.log_ts))
       IN  /\ r.snap = -1 => ~\E s \in summary : s.ip_address = ip /\ s.date = d
           /\ ledger' = L
           /\ summary' = upsert_summary(summary, ip, d, r.snap)
           /\ req' = [req EXCEPT ![p].pc = "llm", ![p].logged = r.logged + 1,
                         ![p].free_info =
                             <<check_free_access(ip, ua, r.sid, ledger, whitelist, now)>>]
    /\ UNCHANGED <<auth_password, now, whitelist, conversations, client, ntok,
                   nchat, resp>>

\* db.session.commit() of log_free_query succeeds, and the fresh status is read.
ChatLogCommit(p) ==
    /\ req[p].pc = "commit"
    /\ LET r == req[p]
           ip == ClientIP(r.client)
           ua == UserAgent(r.client)
           d == Day(r.log_ts)
           L == Append(ledger, log_entry(r.sid, ip, ua, r.log_ts))
       IN  \* unique_ip_date: an insert of a second row for (ip, date) is refused
           /\ r.snap = -1 => ~\E s \in summary : s.ip_address = ip /\ s.date = d
           /\ ledger' = L
           /\ summary' = upsert_summary(summary, ip, d, r.snap)
           /\ req' = [req EXCEPT ![p].pc = "llm", ![p].logged = r.logged + 1,
                         ![p].free_info =
                             <<check_free_access(ip, ua, r.sid, L, whitelist, now)>>]
    /\ UNCHANGED <<auth_password, now, whitelist, conversations, client, ntok,
                   nchat, resp>>

\* The answer of a /chat request that was admitted and ended.
chat_response(r, status, llm) ==
    [NoResp EXCEPT !.endpoint = "chat", !.client = r.client, !.status = status,
                   !.ran = TRUE, !.sess_auth = r.sess_auth,
                   !.access_type = r.access_type, !.free_info = r.free_info,
                   !.logged = r.logged, !.llm = llm]

\* A log_free_query that swallows the failed commit and lets chat() go on.
ChatLogSwallow(p) ==
    /\ req[p].pc = "commit"
    /\ req' = [req EXCEPT ![p].pc = "llm"]
    /\ UNCHANGED <<auth_password, now, ledger, summary, whitelist, conversations,
                   client, ntok, nchat, resp>>

\* db.session.commit() of log_free_query raises (the store is unavailable, or
\* unique_ip_date refuses the insert): chat()'s except clause answers 500.
ChatLogFail(p) ==
    /\ req[p].pc = "commit"
    /\ LET r == req[p]
       IN  /\ resp' = chat_response([r EXCEPT !.free_info = <<>>], 500, "none")
           /\ client' = save_session(r.client, r.sess_auth, r.free_sid, r.modified)
           /\ req' = [req EXCEPT ![p] = IdleReq]
    /\ UNCHANGED <<auth_password, now, ledger, summary, whitelist, conversations,
                   ntok, nchat>>

\* The rest of chat(): the history read, llm_service.get_response, the usage log
\* and the answer; ok is whether all of it went without an exception.
ChatLLM(p, ok) ==
    /\ req[p].pc = "llm"
    /\ LET r == req[p]
           ip == ClientIP(r.client)
           ua == UserAgent(r.client)
           draws == ok /\ r.access_type = "free_tier" /\ r.free_sid = NULL
                    /\ ~is_whitelisted(ip, whitelist)
           free_sid == IF draws THEN Token(ntok + 1) ELSE r.free_sid
           updated == check_free_access(ip, ua, get_session_id(r.free_sid, free_sid),
                                        ledger, whitelist, now)
       IN  /\ draws => ntok < MaxTokens
           /\ ntok' = IF draws THEN ntok + 1 ELSE ntok
           /\ resp' = IF ok
                      THEN chat_response(
                               [r EXCEPT !.free_info =
                                    IF r.access_type = "free_tier" THEN <<updated>>
                                    ELSE <<>>], 200, "ok")
                      ELSE chat_response([r EXCEPT !.free_info = <<>>], 500, "failed")
           /\ client' = save_session(r.client, r.sess_auth, free_sid,
                                     r.modified \/ draws)
           /\ req' = [req EXCEPT ![p] = IdleReq]
    /\ UNCHANGED <<auth_password, now, ledger, summary, whitelist, conversations,
                   nchat>>

\* ------------------------------------------------------------ GET /auth/status
\* A status check that is charged to the caller like a query.
AuthStatusCharging(c) ==
    /\ LET ip == ClientIP(c)
           sess == client[c]
           consults == is_auth_enabled(auth_password)
                       /\ ~is_authenticated(auth_password, sess.authenticated)
           draws == consults /\ ~is_whitelisted(ip, whitelist)
                    /\ sess.free_session_id = NULL
           free_sid == IF draws THEN Token(ntok + 1) ELSE sess.free_session_id
           info == check_free_access(ip, UserAgent(c), free_sid, ledger, whitelist, now)
       IN  /\ draws => ntok < MaxTokens
           /\ ntok' = IF draws THEN ntok + 1 ELSE ntok
           /\ client' = save_session(c, sess.authenticated, free_sid, draws)
           /\ ledger' = IF consults
                        THEN Append(ledger, LogRow(free_sid, ip, UserAgent(c), now))
                        ELSE ledger
           /\ resp' = [NoResp EXCEPT !.endpoint = "auth_status", !.client = c,
                                     !.status = 200, !.ran = TRUE,
                                     !.sess_auth = sess.authenticated,
                                     !.free_info = IF consults THEN <<info>> ELSE <<>>]
    /\ UNCHANGED <<auth_password, now, summary, whitelist, conversations,
                   req, nchat>>

AuthStatus(c) ==
    /\ LET ip == ClientIP(c)
           sess == client[c]
           consults == is_auth_enabled(auth_password)
                       /\ ~is_authenticated(auth_password, sess.authenticated)
           draws == consults /\ ~is_whitelisted(ip, whitelist)
                    /\ sess.free_session_id = NULL
           free_sid == IF draws THEN Token(ntok + 1) ELSE sess.free_session_id
           info == check_free_access(ip, UserAgent(c), free_sid, ledger, whitelist, now)
       IN  /\ draws => ntok < MaxTokens
           /\ ntok' = IF draws THEN ntok + 1 ELSE ntok
           /\ client' = save_session(c, sess.authenticated, free_sid, draws)
           /\ resp' = [NoResp EXCEPT !.endpoint = "auth_status", !.client = c,
                                     !.status = 200, !.ran = TRUE,
                                     !.sess_auth = sess.authenticated,
                                     !.free_info = IF consults THEN <<info>> ELSE <<>>]
    /\ UNCHANGED <<auth_password, now, ledger, summary, whitelist, conversations,
                   req, nchat>>

\* ------------------------------------------- requests while the store is down
\* GET /auth/status when the IPWhitelist query raises: is_whitelisted has no
\* try, check_free_access and auth_status have none either, so the exception
\* leaves the view and the answer is 500.  A caller for whom the lookup is not
\* made is answered as usual.
AuthStatusStoreDown(c) ==
    /\ LET sess == client[c]
           consults == is_auth_enabled(auth_password)
                       /\ ~is_authenticated(auth_password, sess.authenticated)
       IN  resp' = [NoResp EXCEPT !.endpoint = "auth_status", !.client = c,
                                  !.status = IF consults THEN 500 ELSE 200,
                                  !.ran = TRUE,
                                  !.sess_auth = sess.authenticated,
                                  !.prior = IF consults THEN "unavailable" ELSE NULL]
    /\ UNCHANGED <<auth_password, now, ledger, summary, whitelist, conversations,
                   client, req, ntok, nchat>>

\* A request to an access_required endpoint by a caller who is not logged in,
\* when the IPWhitelist query raises: the exception passes through
\* check_free_access, has_access and the decorator, the handler does not run
\* and the answer is 500.
GateStoreDown(c) ==
    /\ is_auth_enabled(auth_password)
    /\ ~is_authenticated(auth_password, client[c].authenticated)
    /\ resp' = [NoResp EXCEPT !.endpoint = "chat", !.client = c, !.status = 500,
                              !.sess_auth = client[c].authenticated,
                              !.reads = {"ip_whitelist"},
                              !.prior = "unavailable"]
    /\ UNCHANGED <<auth_password, now, ledger, summary, whitelist, conversations,
                   client, req, ntok, nchat>>

\* ------------------------------------------------ POST /auth/login, /auth/logout
Passwords == {"secret", "guess"}

Login(c, password) ==
    /\ LET ok == ~is_auth_enabled(auth_password)
                 \/ verify_password(auth_password, password)
           marks == is_auth_enabled(auth_password)
                    /\ verify_password(auth_password, password)
       IN  /\ client' = IF marks THEN [client EXCEPT ![c].authenticated = TRUE]
                        ELSE client
           /\ resp' = [NoResp EXCEPT !.endpoint = "login", !.client = c,
                                     !.status = IF ok THEN 200 ELSE 401, !.ran = TRUE,
                                     !.sess_auth = client[c].authenticated]
    /\ UNCHANGED <<auth_password, now, ledger, summary, whitelist, conversations,
                   req, ntok, nchat>>

Logout(c) ==
    /\ client' = [client EXCEPT ![c].authenticated = FALSE]
    /\ resp' = [NoResp EXCEPT !.endpoint = "logout", !.client = c, !.status = 200,
                              !.ran = TRUE, !.sess_auth = client[c].authenticated]
    /\ UNCHANGED <<auth_password, now, ledger, summary, whitelist, conversations,
                   req, ntok, nchat>>

\* --------------------------------------------------------------- the whitelist
\* ipaddress.ip_address(ip) accepts ip.
valid_ip(ip) == ip \in {"ip1", "ip2", "ip3"}

\* The primary key (uuid4) of a row inserted into W: rows are never deleted, so
\* the number of rows tells the keys already given out.
new_id(W) == Cardinality(W) + 1

\* An add that takes any string for an address.
add_to_whitelist_unvalidated(W, ip, description, created_by) ==
    IF \E e \in W : e.ip_address = ip
    THEN <<TRUE, {IF e.ip_address = ip
                  THEN [e EXCEPT !.is_active = TRUE, !.description = description,
                                 !.created_by = created_by]
                  ELSE e : e \in W},
           "IP added to whitelist successfully">>
    ELSE <<TRUE, W \cup {[id |-> new_id(W), ip_address |-> ip,
                          description |-> description, created_by |-> created_by,
                          is_active |-> TRUE]},
           "IP added to whitelist successfully">>

\* An add that reactivates an entry without touching what it says.
add_to_whitelist_keep(W, ip, description, created_by) ==
    IF ~valid_ip(ip) THEN <<FALSE, W, "not an IPv4 or IPv6 address">>
    ELSE IF \E e \in W : e.ip_address = ip
    THEN <<TRUE, {IF e.ip_address = ip THEN [e EXCEPT !.is_active = TRUE] ELSE e
                  : e \in W},
           "IP added to whitelist successfully">>
    ELSE <<TRUE, W \cup {[id |-> new_id(W), ip_address |-> ip,
                          description |-> description, created_by |-> created_by,
                          is_active |-> TRUE]},
           "IP added to whitelist successfully">>

\* add_to_whitelist: <<success, the table afterwards, the message>>.
add_to_whitelist(W, ip, description, created_by) ==
    IF ~valid_ip(ip) THEN <<FALSE, W, "not an IPv4 or IPv6 address">>
    ELSE IF \E e \in W : e.ip_address = ip
    THEN <<TRUE, {IF e.ip_address = ip
                  THEN [e EXCEPT !.is_active = TRUE, !.description = description,
                                 !.created_by = created_by]
                  ELSE e : e \in W},
           "IP added to whitelist successfully">>
    ELSE <<TRUE, W \cup {[id |-> new_id(W), ip_address |-> ip,
                          description |-> description, created_by |-> created_by,
                          is_active |-> TRUE]},
           "IP added to whitelist successfully">>

\* remove_from_whitelist: <<success, the table afterwards, the message>>.
\* A removal that deletes the row.
remove_from_whitelist_hard(W, ip) ==
    IF \E e \in W : e.ip_address = ip
    THEN <<TRUE, {e \in W : e.ip_address # ip}, "IP removed from whitelist">>
    ELSE <<FALSE, W, "IP not found in whitelist">>

remove_from_whitelist(W, ip) ==
    IF \E e \in W : e.ip_address = ip
    THEN <<TRUE, {IF e.ip_address = ip THEN [e EXCEPT !.is_active = FALSE] ELSE e
                  : e \in W},
           "IP removed from whitelist">>
    ELSE <<FALSE, W, "IP not found in whitelist">>

\* What the table held for ip when a whitelist request arrived.
prior_entry(W, ip) ==
    IF ~valid_ip(ip) THEN "invalid"
    ELSE IF ~\E e \in W : e.ip_address = ip THEN "none"
    ELSE IF \E e \in W : e.ip_address = ip /\ e.is_active THEN "active"
    ELSE "inactive"

\* The answer of login_required when it turns the caller away.
auth_rejection(is_json) == IF is_json THEN 401 ELSE 302

\* POST /admin/whitelist
AdminAddWhitelist(c, is_json, ip, description) ==
    /\ LET runs == login_required(auth_password, client[c].authenticated)
           res == add_to_whitelist(whitelist, ip, description, "admin")
           answer == [NoResp EXCEPT !.endpoint = "admin_whitelist_add", !.client = c,
                                    !.sess_auth = client[c].authenticated,
                                    !.target = ip,
                                    !.prior = prior_entry(whitelist, ip)]
       IN  IF ~runs
           THEN /\ resp' = [answer EXCEPT !.status = auth_rejection(is_json)]
                /\ whitelist' = whitelist
           ELSE /\ resp' = [answer EXCEPT !.ran = TRUE, !.message = res[3],
                                          !.status = IF res[1] THEN 201 ELSE 400]
                /\ whitelist' = res[2]
    /\ UNCHANGED <<auth_password, now, ledger, summary, conversations, client, req,
                   ntok, nchat>>

\* DELETE /admin/whitelist/<ip_address>
AdminRemoveWhitelist(c, is_json, ip) ==
    /\ LET runs == login_required(auth_password, client[c].authenticated)
           res == remove_from_whitelist(whitelist, ip)
           answer == [NoResp EXCEPT !.endpoint = "admin_whitelist_remove",
                                    !.client = c,
                                    !.sess_auth = client[c].authenticated,
                                    !.target = ip,
                                    !.prior = prior_entry(whitelist, ip)]
       IN  IF ~runs
           THEN /\ resp' = [answer EXCEPT !.status = auth_rejection(is_json)]
                /\ whitelist' = whitelist
           ELSE /\ resp' = [answer EXCEPT !.ran = TRUE, !.message = res[3],
                                          !.status = IF res[1] THEN 200 ELSE 404]
                /\ whitelist' = res[2]
    /\ UNCHANGED <<auth_password, now, ledger, summary, conversations, client, req,
                   ntok, nchat>>

\* ------------------------------------------------------ /api/ip-whitelist
\* current_user_id()
current_user_id(pw, sess_auth) ==
    IF is_authenticated(pw, sess_auth) THEN "admin" ELSE NULL

\* access_required(allow_free=False) as the dashboard endpoints carry it: the
\* decision of has_access for browser c, and the session it leaves behind.
api_gate(c) ==
    LET ip == ClientIP(c)
        sess == client[c]
        consults == ~is_authenticated(auth_password, sess.authenticated)
                    /\ is_auth_enabled(auth_password)
        draws == consults /\ ~is_whitelisted(ip, whitelist)
                 /\ sess.free_session_id = NULL
        free_sid == IF draws THEN Token(ntok + 1) ELSE sess.free_session_id
        gate == has_access(auth_password, sess.authenticated, ip, UserAgent(c),
                           get_session_id(sess.free_session_id, free_sid),
                           ledger, whitelist, now)
    IN  [allowed |-> gate.allowed, access_type |-> gate.access_type,
         free_info |-> gate.free_info, draws |-> draws, free_sid |-> free_sid]

\* The part of a dashboard answer the gate decides.
api_answer(endpoint, c, g, is_json) ==
    [NoResp EXCEPT !.endpoint = endpoint, !.client = c,
                   !.sess_auth = client[c].authenticated,
                   !.access_type = g.access_type, !.free_info = g.free_info,
                   !.status = IF g.allowed THEN 200
                              ELSE IF is_json THEN 403 ELSE 302,
                   !.ran = g.allowed]

\* api_add_ip_whitelist's body: <<status, the table afterwards>>.
api_add_ip_whitelist(W, ip, description, created_by) ==
    IF ip = "" \/ ~valid_ip(ip) THEN <<400, W>>
    ELSE IF \E e \in W : e.ip_address = ip /\ e.is_active THEN <<409, W>>
    ELSE IF \E e \in W : e.ip_address = ip
    THEN <<200, {IF e.ip_address = ip
                 THEN [e EXCEPT !.is_active = TRUE,
                                !.description = IF description # "" THEN description
                                                ELSE e.description,
                                !.created_by = created_by]
                 ELSE e : e \in W}>>
    ELSE <<201, W \cup {[id |-> new_id(W), ip_address |-> ip,
                         description |-> IF description # "" THEN description
                                         ELSE "Added via dashboard",
                         created_by |-> created_by, is_active |-> TRUE]}>>

\* api_remove_ip_whitelist's body: <<status, the table afterwards>>.
api_remove_ip_whitelist(W, whitelist_id) ==
    IF \E e \in W : e.id = whitelist_id
    THEN <<200, {IF e.id = whitelist_id THEN [e EXCEPT !.is_active = FALSE] ELSE e
                 : e \in W}>>
    ELSE <<404, W>>

\* POST /api/ip-whitelist with a JSON body, up to the lookup of the existing
\* entry: every answer but the insert of a new entry is given here; the insert
\* waits for its commit in worker p.
ApiAddWhitelist(p, c, ip, description) ==
    /\ req[p].pc = "idle"
    /\ \A q \in Procs : q < p => req[q].pc # "idle"   \* the first free worker
    /\ LET g == api_gate(c)
           res == api_add_ip_whitelist(whitelist, ip, description,
                                       current_user_id(auth_password,
                                                       client[c].authenticated))
           answer == [api_answer("api_whitelist_add", c, g, TRUE)
                        EXCEPT !.target = ip, !.prior = prior_entry(whitelist, ip)]
       IN  /\ g.draws => ntok < MaxTokens
           /\ ntok' = IF g.draws THEN ntok + 1 ELSE ntok
           /\ IF g.allowed /\ res[1] = 201
              THEN /\ req' = [req EXCEPT ![p] =
                                [IdleReq EXCEPT
                                   !.pc = "insert", !.client = c,
                                   !.access_type = g.access_type,
                                   !.free_info = g.free_info,
                                   !.sess_auth = client[c].authenticated,
                                   !.free_sid = g.free_sid, !.modified = g.draws,
                                   !.target = ip, !.description = description]]
                   /\ UNCHANGED <<client, resp, whitelist>>
              ELSE /\ client' = save_session(c, client[c].authenticated,
                                             g.free_sid, g.draws)
                   /\ resp' = IF g.allowed THEN [answer EXCEPT !.status = res[1]]
                              ELSE answer
                   /\ whitelist' = IF g.allowed THEN res[2] ELSE whitelist
                   /\ req' = req
    /\ UNCHANGED <<auth_password, now, ledger, summary, conversations, nchat>>

\* db.session.commit() of the new entry: the unique index on ip_address refuses
\* a second row for the address, and the except clause rolls back and answers
\* 500.
ApiAddCommit(p) ==
    /\ req[p].pc = "insert"
    /\ LET r == req[p]
           refused == \E e \in whitelist : e.ip_address = r.target
           res == api_add_ip_whitelist(whitelist, r.target, r.description,
                                       current_user_id(auth_password, r.sess_auth))
           answer == [NoResp EXCEPT !.endpoint = "api_whitelist_add",
                                    !.client = r.client, !.ran = TRUE,
                                    !.sess_auth = r.sess_auth,
                                    !.access_type = r.access_type,
                                    !.free_info = r.free_info,
                                    !.target = r.target, !.prior = "none"]
       IN  /\ resp' = [answer EXCEPT !.status = IF refused THEN 500 ELSE res[1]]
           /\ whitelist' = IF refused THEN whitelist ELSE res[2]
           /\ client' = save_session(r.client, r.sess_auth, r.free_sid, r.modified)
           /\ req' = [req EXCEPT ![p] = IdleReq]
    /\ UNCHANGED <<auth_password, now, ledger, summary, conversations, ntok, nchat>>

\* DELETE /api/ip-whitelist/<whitelist_id>
ApiRemoveWhitelist(c, is_json, whitelist_id) ==
    /\ LET g == api_gate(c)
           res == api_remove_ip_whitelist(whitelist, whitelist_id)
           hit == {e \in whitelist : e.id = whitelist_id}
           answer == [api_answer("api_whitelist_remove", c, g, is_json)
                        EXCEPT !.target = IF hit = {} THEN NULL
                                          ELSE (CHOOSE e \in hit : TRUE).ip_address,
                               !.prior = IF hit = {} THEN "none"
                                         ELSE IF (CHOOSE e \in hit : TRUE).is_active
                                         THEN "active" ELSE "inactive"]
       IN  /\ g.draws => ntok < MaxTokens
           /\ ntok' = IF g.draws THEN ntok + 1 ELSE ntok
           /\ client' = save_session(c, client[c].authenticated, g.free_sid, g.draws)
           /\ IF g.allowed
              THEN /\ resp' = [answer EXCEPT !.status = res[1]]
                   /\ whitelist' = res[2]
              ELSE /\ resp' = answer
                   /\ whitelist' = whitelist
    /\ UNCHANGED <<auth_password, now, ledger, summary, conversations, req, nchat>>

\* A clear that does what its name says.
ClearActivityLogHard(c, is_json) ==
    /\ LET g == api_gate(c)
       IN  /\ g.draws => ntok < MaxTokens
           /\ ntok' = IF g.draws THEN ntok + 1 ELSE ntok
           /\ client' = save_session(c, client[c].authenticated, g.free_sid, g.draws)
           /\ resp' = api_answer("api_activity_log_clear", c, g, is_json)
           /\ ledger' = IF g.allowed THEN <<>> ELSE ledger
    /\ UNCHANGED <<auth_password, now, summary, whitelist, conversations, req, nchat>>

\* DELETE /api/activity-log: answers success and deletes nothing.
ClearActivityLog(c, is_json) ==
    /\ LET g == api_gate(c)
       IN  /\ g.draws => ntok < MaxTokens
           /\ ntok' = IF g.draws THEN ntok + 1 ELSE ntok
           /\ client' = save_session(c, client[c].authenticated, g.free_sid, g.draws)
           /\ resp' = api_answer("api_activity_log_clear", c, g, is_json)
    /\ UNCHANGED <<auth_password, now, ledger, summary, whitelist, conversations,
                   req, nchat>>

\* ------------------------------------------------------------------- the clock
TimePoints == {Window, Window + 1}

Tick ==
    /\ \E t \in TimePoints : t > now /\ now' = t
    /\ UNCHANGED <<auth_password, ledger, summary, whitelist, conversations, client,
                   req, ntok, nchat, resp>>

\* ------------------------------------------------ POST /stability-edit-image
\* Behind access_required(allow_free=True), with a form body carrying an image
\* and a prompt: the image is edited (ok is whether llm_service.edit_image went
\* without an exception) and the answer is given; log_free_query is not called.
StabilityEditImage(c, ok) ==
    /\ LET g == api_gate(c)
           answer == api_answer("stability_edit_image", c, g, FALSE)
       IN  /\ g.draws => ntok < MaxTokens
           /\ ntok' = IF g.draws THEN ntok + 1 ELSE ntok
           /\ client' = save_session(c, client[c].authenticated, g.free_sid, g.draws)
           /\ resp' = IF g.allowed
                      THEN [answer EXCEPT !.status = IF ok THEN 200 ELSE 500,
                                          !.llm = IF ok THEN "ok" ELSE "failed"]
                      ELSE answer
    /\ UNCHANGED <<auth_password, now, ledger, summary, whitelist, conversations,
                   req, nchat>>

\* ------------------------------------------------------- identity and ownership
get_user_identity(pw, sess, cookie_sid, ip) ==
    IF is_authenticated(pw, sess.authenticated)
    THEN [type |-> "authenticated", user_id |-> principal_id(ip), session_id |-> NULL]
    ELSE [type |-> "free", user_id |-> NullUser,
          session_id |-> IF cookie_sid # NULL THEN cookie_sid
                         ELSE sess.free_session_id]

Identity(c) ==
    get_user_identity(auth_password, client[c], client[c].cookie_sid, ClientIP(c))

\* A comparison rendered "column = value" whatever the value: in SQL no row
\* satisfies "= NULL".
sql_equals_plain(column, value, null) ==
    value # null /\ column # null /\ column = value

\* Column == value as SQLAlchemy renders it in a WHERE clause, for a row whose
\* column holds `column`: "column IS NULL" when value is None, and otherwise
\* "column = value", which no row with a NULL column satisfies.
sql_equals(column, value, null) ==
    IF value = null THEN column = null
    ELSE column # null /\ column = value

\* The rows of C the filtered query returns.
filter_conversations_by_user(C, identity) ==
    IF identity.type = "authenticated"
    THEN {cv \in C : sql_equals(cv.user_id, identity.user_id, NullUser)}
    ELSE {cv \in C : sql_equals(cv.session_id, identity.session_id, NULL)}

\* check_conversation_access for a stored conversation: Python's == on the
\* owner field, None == None included.
check_conversation_access(cv, identity) ==
    IF identity.type = "authenticated"
    THEN cv.user_id = identity.user_id
    ELSE cv.session_id = identity.session_id

\* response.set_cookie('session_id', ...) of the conversation endpoints.
set_session_cookie(c, identity) ==
    IF identity.type = "free" /\ identity.session_id # NULL
       /\ client[c].cookie_sid = NULL
    THEN [client EXCEPT ![c].cookie_sid = identity.session_id]
    ELSE client

\* POST /conversations.  created_as records the identity the row was created
\* under (a history field, not a column).
CreateConversation(c) ==
    /\ Cardinality(conversations) < MaxConvs
    /\ LET identity == Identity(c)
           cv == [id |-> Cardinality(conversations) + 1,
                  user_id |-> identity.user_id,
                  session_id |-> identity.session_id,
                  tags |-> {},
                  project_id |-> "p1",
                  messages |-> 0,
                  created_as |-> identity]
       IN  /\ conversations' = conversations \cup {cv}
           /\ client' = set_session_cookie(c, identity)
           /\ resp' = [NoResp EXCEPT !.endpoint = "create_conversation", !.client = c,
                                     !.status = 201, !.ran = TRUE,
                                     !.sess_auth = client[c].authenticated,
                                     !.identity = <<identity>>]
    /\ UNCHANGED <<auth_password, now, ledger, summary, whitelist, req, ntok, nchat>>

\* GET /conversations
GetConversations(c) ==
    /\ LET identity == Identity(c)
       IN  /\ client' = set_session_cookie(c, identity)
           /\ resp' = [NoResp EXCEPT !.endpoint = "get_conversations", !.client = c,
                                     !.status = 200, !.ran = TRUE,
                                     !.sess_auth = client[c].authenticated,
                                     !.identity = <<identity>>,
                                     !.listed =
                                         filter_conversations_by_user(conversations,
                                                                      identity)]
    /\ UNCHANGED <<auth_password, now, ledger, summary, whitelist, conversations,
                   req, ntok, nchat>>

\* GET /conversations/<conversation_id>/messages, behind
\* require_conversation_access.
GetMessages(c, cv) ==
    /\ cv \in conversations
    /\ LET identity == Identity(c)
           granted == check_conversation_access(cv, identity)
       IN  resp' = [NoResp EXCEPT !.endpoint = "get_messages", !.client = c,
                                  !.status = IF granted THEN 200 ELSE 403,
                                  !.ran = granted,
                                  !.sess_auth = client[c].authenticated,
                                  !.identity = <<identity>>,
                                  !.listed = IF granted THEN {cv} ELSE {}]
    /\ UNCHANGED <<auth_password, now, ledger, summary, whitelist, conversations,
                   client, req, ntok, nchat>>

\* GET /api/conversations/<conversation_id>/tags: the route carries no
\* decorator; the row is fetched by id and its tags are returned.
GetConversationTags(c, cv) ==
    /\ cv \in conversations
    /\ resp' = [NoResp EXCEPT !.endpoint = "get_conversation_tags", !.client = c,
                              !.status = 200, !.ran = TRUE,
                              !.sess_auth = client[c].authenticated,
                              !.identity = <<Identity(c)>>,
                              !.listed = {cv}]
    /\ UNCHANGED <<auth_password, now, ledger, summary, whitelist, conversations,
                   client, req, ntok, nchat>>

\* A tagging that hands the conversation over to the caller.
AddConversationTagsTakeOver(c, cv, new_tags) ==
    /\ cv \in conversations
    /\ new_tags # {}
    /\ conversations' = (conversations \ {cv})
                            \cup {[cv EXCEPT !.tags = cv.tags \cup new_tags,
                                             !.user_id = Identity(c).user_id,
                                             !.session_id = Identity(c).session_id]}
    /\ resp' = [NoResp EXCEPT !.endpoint = "add_conversation_tags", !.client = c,
                              !.status = 200, !.ran = TRUE,
                              !.sess_auth = client[c].authenticated,
                              !.identity = <<Identity(c)>>, !.listed = {cv}]
    /\ UNCHANGED <<auth_password, now, ledger, summary, whitelist, client, req,
                   ntok, nchat>>

\* POST /api/conversations/<conversation_id>/tags: the route carries no
\* decorator; the cleaned tags are merged into the row fetched by id.
AddConversationTags(c, cv, new_tags) ==
    /\ cv \in conversations
    /\ IF new_tags = {}
       THEN /\ resp' = [NoResp EXCEPT !.endpoint = "add_conversation_tags",
                                      !.client = c, !.status = 400,
                                      !.sess_auth = client[c].authenticated,
                                      !.identity = <<Identity(c)>>]
            /\ UNCHANGED conversations
       ELSE LET all_tags == cv.tags \cup new_tags
            IN  /\ conversations' = (conversations \ {cv})
                                        \cup {[cv EXCEPT !.tags = all_tags]}
                /\ resp' = [NoResp EXCEPT !.endpoint = "add_conversation_tags",
                                          !.client = c, !.status = 200,
                                          !.ran = TRUE,
                                          !.sess_auth = client[c].authenticated,
                                          !.identity = <<Identity(c)>>,
                                          !.listed = {cv}]
    /\ UNCHANGED <<auth_password, now, ledger, summary, whitelist, client, req,
                   ntok, nchat>>

\* POST /conversations/<conversation_id>/messages with a valid body, behind
\* require_conversation_access: one Message row more for the conversation.
MaxMessages == 1

AddMessage(c, cv) ==
    /\ cv \in conversations
    /\ cv.messages < MaxMessages
    /\ LET identity == Identity(c)
           granted == check_conversation_access(cv, identity)
       IN  /\ resp' = [NoResp EXCEPT !.endpoint = "add_message", !.client = c,
                                     !.status = IF granted THEN 201 ELSE 403,
                                     !.ran = granted,
                                     !.sess_auth = client[c].authenticated,
                                     !.identity = <<identity>>,
                                     !.listed = IF granted THEN {cv} ELSE {}]
           /\ conversations' =
                 IF granted
                 THEN (conversations \ {cv})
                          \cup {[cv EXCEPT !.messages = cv.messages + 1]}
                 ELSE conversations
    /\ UNCHANGED <<auth_password, now, ledger, summary, whitelist, client, req,
                   ntok, nchat>>

\* DELETE /projects/<project_id>: the conversations of the project are set to
\* no project and the project is deleted.  A project some conversation refers
\* to exists; one that none refers to may exist (200) or not (404).
DeleteProject(project_id, found) ==
    /\ (\E cv \in conversations : cv.project_id = project_id) => found
    /\ conversations' = IF found
                        THEN {IF cv.project_id = project_id
                              THEN [cv EXCEPT !.project_id = NULL] ELSE cv
                              : cv \in conversations}
                        ELSE conversations
    /\ resp' = [NoResp EXCEPT !.endpoint = "delete_project",
                              !.status = IF found THEN 200 ELSE 404,
                              !.ran = TRUE]
    /\ UNCHANGED <<auth_password, now, ledger, summary, whitelist, client, req,
                   ntok, nchat>>

\* The browser is closed and opened again: the Flask session cookie, which has
\* no expiry (session.permanent is never set), is dropped, and the session_id
\* cookie set with max_age of 30 days is kept.
BrowserRestart(c) ==
    /\ client[c].cookie_sid # NULL
    /\ client' = [client EXCEPT ![c].authenticated = FALSE,
                                ![c].free_session_id = NULL]
    /\ UNCHANGED <<auth_password, now, ledger, summary, whitelist, conversations,
                   req, ntok, nchat, resp>>

\* ------------------------------------------------------------ the specifications
Bodies == {"ok", "missing", "nonjson"}
Descriptions == {"Demo Access", "Lab"}

Operators == {"c"}        \* the browsers whose user knows the password

\* The access gate and the quota ledger under concurrent /chat requests.
Next ==
    \/ \E p \in Procs, c \in Clients, body \in Bodies : ChatGate(p, c, body)
    \/ \E p \in Procs : ChatLogBegin(p)
    \/ \E p \in Procs : ChatLogCommit(p)
    \/ \E p \in Procs : ChatLogFail(p)
    \/ \E p \in Procs, ok \in BOOLEAN : ChatLLM(p, ok)
    \/ \E c \in Operators : Login(c, "secret")
    \/ \E c \in Operators : Logout(c)
    \/ Tick

Spec == Init /\ [][Next]_vars

\* /chat requests served one at a time, the whitelist left alone.
NextSequential ==
    \/ \E c \in Clients, body \in Bodies : ChatGate(1, c, body)
    \/ ChatLogBegin(1)
    \/ ChatLogCommit(1)
    \/ ChatLogFail(1)
    \/ \E ok \in BOOLEAN : ChatLLM(1, ok)
    \/ \E c \in Operators : Login(c, "secret")
    \/ \E c \in Operators : Logout(c)
    \/ Tick

SpecSequential == Init /\ [][NextSequential]_vars

\* The two endpoints declared with access_required(allow_free=True), served
\* one request at a time.
NextAllowFree ==
    \/ \E c \in Clients : ChatGate(1, c, "ok")
    \/ ChatLogBegin(1)
    \/ ChatLogCommit(1)
    \/ ChatLogFail(1)
    \/ \E ok \in BOOLEAN : ChatLLM(1, ok)
    \/ \E c \in {"a", "c"}, ok \in BOOLEAN : StabilityEditImage(c, ok)
    \/ \E c \in Operators : Login(c, "secret")
    \/ \E c \in Operators : Logout(c)

SpecAllowFree == Init /\ [][NextAllowFree]_vars

\* The whitelist under administration, with /chat requests served one at a time.

InitAdmin ==
    /\ Init
    /\ auth_password = "secret"
    /\ ledger = HistTen

NextAdmin ==
    \/ \E c \in Clients : ChatGate(1, c, "ok")
    \/ ChatLogBegin(1)
    \/ ChatLogCommit(1)
    \/ ChatLogFail(1)
    \/ \E ok \in BOOLEAN : ChatLLM(1, ok)
    \/ \E c \in {"a", "c"} : AuthStatus(c)
    \/ \E c \in Operators, password \in Passwords : Login(c, password)
    \/ \E c \in Operators : Logout(c)
    \/ \E c \in {"a", "c"}, is_json \in BOOLEAN, ip \in {"ip1", "bad"} :
          AdminAddWhitelist(c, is_json, ip, "Lab")
    \/ \E c \in {"a", "c"}, is_json \in BOOLEAN, ip \in {"ip1", "bad"} :
          AdminRemoveWhitelist(c, is_json, ip)
    \/ \E c \in {"a", "c"} : ClearActivityLog(c, TRUE)

SpecAdmin == InitAdmin /\ [][NextAdmin]_vars

\* Whitelist administration through both families of endpoints.
WhitelistIPs == {"ip1", "bad"}
WhitelistIds == {1, 2}

InitWhitelist ==
    /\ Init
    /\ auth_password = "secret"
    /\ ledger \in {<<>>, HistTen}

NextWhitelist ==
    \/ \E c \in Operators : Login(c, "secret")
    \/ \E c \in Operators : Logout(c)
    \/ \E c \in {"a", "c"}, is_json \in BOOLEAN, ip \in WhitelistIPs,
          description \in Descriptions :
          AdminAddWhitelist(c, is_json, ip, description)
    \/ \E c \in {"a", "c"}, is_json \in BOOLEAN, ip \in WhitelistIPs :
          AdminRemoveWhitelist(c, is_json, ip)
    \/ \E c \in {"a", "c"}, ip \in WhitelistIPs, description \in {"", "Lab"} :
          ApiAddWhitelist(1, c, ip, description)
    \/ ApiAddCommit(1)
    \/ \E c \in {"a", "c"}, is_json \in BOOLEAN, whitelist_id \in WhitelistIds :
          ApiRemoveWhitelist(c, is_json, whitelist_id)

SpecWhitelist == InitWhitelist /\ [][NextWhitelist]_vars

\* Whitelist requests served by concurrent workers, with no password set.
InitRace ==
    /\ Init
    /\ auth_password = NULL
    /\ ledger = <<>>

NextRace ==
    \/ \E p \in Procs, ip \in WhitelistIPs, description \in {"", "Lab"} :
          ApiAddWhitelist(p, "a", ip, description)
    \/ \E p \in Procs : ApiAddCommit(p)
    \/ \E whitelist_id \in WhitelistIds : ApiRemoveWhitelist("a", TRUE, whitelist_id)
    \/ \E ip \in WhitelistIPs : AdminAddWhitelist("a", TRUE, ip, "Demo Access")
    \/ \E ip \in WhitelistIPs : AdminRemoveWhitelist("a", TRUE, ip)

SpecRace == InitRace /\ [][NextRace]_vars

\* log_free_query called by concurrent /chat requests of one IP address.
InitSummary ==
    /\ InitFrom({<<>>, HistToday})
    /\ auth_password = "secret"
    /\ whitelist = {}

NextSummary ==
    \/ \E p \in Procs, c \in {"a", "b"} : ChatGate(p, c, "ok")
    \/ \E p \in Procs : ChatLogBegin(p)
    \/ \E p \in Procs : ChatLogCommit(p)
    \/ \E p \in Procs : ChatLogFail(p)
    \/ \E p \in Procs, ok \in BOOLEAN : ChatLLM(p, ok)

SpecSummary == InitSummary /\ [][NextSummary]_vars

\* Requests served while the whitelist lookup fails, among requests served
\* while it works.
NextOutage ==
    \/ \E c \in Clients : AuthStatus(c)
    \/ \E c \in Clients : AuthStatusStoreDown(c)
    \/ \E c \in Clients : GateStoreDown(c)
    \/ \E c \in Operators : Login(c, "secret")
    \/ \E c \in Operators : Logout(c)
    \/ Tick

SpecOutage == Init /\ [][NextOutage]_vars

\* Identity resolution and conversation ownership.
InitOwner ==
    /\ Init
    /\ ledger = <<>>
    /\ whitelist = {}

NextOwner ==
    \/ \E c \in Clients : CreateConversation(c)
    \/ \E c \in Clients : GetConversations(c)
    \/ \E c \in Clients, cv \in conversations : GetMessages(c, cv)
    \/ \E c \in Clients : AuthStatus(c)
    \/ \E c \in Clients, password \in Passwords : Login(c, password)
    \/ \E c \in Clients : Logout(c)

SpecOwner == InitOwner /\ [][NextOwner]_vars

\* The identity that owns conversations and the identity charged by /chat.
NextIdentity ==
    \/ \E c \in Clients : CreateConversation(c)
    \/ \E c \in Clients : BrowserRestart(c)
    \/ \E c \in Clients : ChatGate(1, c, "ok")
    \/ ChatLogBegin(1)
    \/ ChatLogCommit(1)
    \/ ChatLogFail(1)
    \/ \E ok \in BOOLEAN : ChatLLM(1, ok)

SpecIdentity == InitOwner /\ [][NextIdentity]_vars

\* Every endpoint that takes a conversation id, called by two browsers.
TagClients == {"b", "c"}
TagSets == {{}, {"x"}}

NextTags ==
    \/ \E c \in TagClients : CreateConversation(c)
    \/ \E c \in TagClients, cv \in conversations : GetMessages(c, cv)
    \/ \E c \in TagClients, cv \in conversations : GetConversationTags(c, cv)
    \/ \E c \in TagClients, cv \in conversations, new_tags \in TagSets :
          AddConversationTags(c, cv, new_tags)
    \/ \E c \in TagClients, cv \in conversations : AddMessage(c, cv)
    \/ \E found \in BOOLEAN : DeleteProject("p1", found)
    \/ \E c \in Operators, password \in Passwords : Login(c, password)
    \/ \E c \in Operators : Logout(c)

SpecTags == InitOwner /\ [][NextTags]_vars

\* ===================================================================== claims
\* Steps of the /chat pipeline, told from what they change.
GateStep == nchat' = nchat + 1
Admitted(p) == req[p].pc = "idle" /\ req'[p].pc # "idle"
Turned == GateStep /\ req' = req          \* the gate answered at once
Finished(p) == req[p].pc = "llm" /\ req'[p].pc = "idle"

\* The ledger rows inside the 24h window of a check made at time t whose
\* column col is val.
InWindow(L, col, val, t) ==
    {i \in 1..Len(L) : L[i][col] = val /\ L[i].timestamp >= t - Window}

RECURSIVE CountSum(_, _)
CountSum(L, S) ==
    IF S = {} THEN 0
    ELSE LET i == CHOOSE j \in S : TRUE
         IN  L[i].query_count + CountSum(L, S \ {i})

\* The status fi reported to browser c, whose session id resolved to s, is the
\* maximum of the three in-window sums of the ledger L at time t.
ReportsMax(fi, c, s, L, t) ==
    LET bySession == CountSum(L, InWindow(L, "session_id", s, t))
        byIP == CountSum(L, InWindow(L, "ip_address", ClientIP(c), t))
        byKey == CountSum(L, InWindow(L, "tracking_key",
                                      get_tracking_key(ClientIP(c), UserAgent(c)), t))
    IN  /\ fi.queries_used >= bySession
        /\ fi.queries_used >= byIP
        /\ fi.queries_used >= byKey
        /\ fi.queries_used \in {bySession, byIP, byKey}

\* C1: every status check_free_access reports to a non-whitelisted caller at the
\* gate has queries_used equal to the maximum of the in-window sums of
\* query_count by session_id, by ip_address and by tracking_key, and so is never
\* less than any of the three.
C1_MostRestrictiveWins ==
    [][GateStep =>
         /\ \A p \in Procs :
              (Admitted(p) /\ req'[p].gate_info # <<>>
                 /\ ~req'[p].gate_info[1].whitelisted)
              => ReportsMax(req'[p].gate_info[1], req'[p].client, req'[p].free_sid,
                            ledger, now)
         /\ (Turned /\ resp'.free_info # <<>> /\ ~resp'.free_info[1].whitelisted)
              => ReportsMax(resp'.free_info[1], resp'.client,
                            client'[resp'.client].free_session_id, ledger, now)]_vars

\* A request admitted on a status whose IP sum exceeds its session sum and its
\* tracking-key sum.
C1_Witness ==
    \E p \in Procs :
        /\ req[p].pc # "idle"
        /\ req[p].gate_info # <<>>
        /\ ~req[p].gate_info[1].whitelisted
        /\ LET tm == req[p].gate_info[1].tracking_method
           IN  /\ tm.session < tm.ip
               /\ tm.key < tm.session
               /\ req[p].gate_info[1].queries_used = 9

\* C2: what the conversation endpoints hand out stays with its owner: a
\* conversation created under an anonymous identity goes only to an anonymous
\* identity carrying the same session token, and a conversation created under an
\* authenticated identity goes to no anonymous identity.
C2_OwnershipIsolation ==
    resp.endpoint \in {"get_conversations", "get_messages"} =>
        \A cv \in resp.listed :
            LET who == resp.identity[1]
            IN  /\ cv.created_as.type = "free" =>
                      /\ who.type = "free"
                      /\ who.session_id = cv.created_as.session_id
                /\ cv.created_as.type = "authenticated" => who.type = "authenticated"

\* An IP with an active whitelist entry, read off the table itself.
ActiveEntry(ip, W) == \E e \in W : e.ip_address = ip /\ e.is_active

AuthStatusStep == resp'.endpoint = "auth_status" /\ req' = req /\ nchat' = nchat

\* C3: while an IP has an active whitelist entry, every quota check made for it
\* (at the gate, by /auth/status, by log_free_query and at the end of chat())
\* reports has_access, and a log_free_query call made for it appends no
\* FreeAccessLog row and changes no IPUsageSummary row, whatever the usage
\* recorded before.
C3_WhitelistBypass ==
    [][/\ \A p \in Procs :
            (GateStep /\ Admitted(p) /\ req'[p].gate_info # <<>>
               /\ ActiveEntry(ClientIP(req'[p].client), whitelist))
            => /\ req'[p].gate_info[1].has_access
               /\ req'[p].gate_info[1].whitelisted
       /\ (Turned /\ resp'.free_info # <<>>
             /\ ActiveEntry(ClientIP(resp'.client), whitelist))
            => /\ resp'.free_info[1].has_access
               /\ resp'.ran
       /\ (AuthStatusStep /\ resp'.free_info # <<>>
             /\ ActiveEntry(ClientIP(resp'.client), whitelist))
            => resp'.free_info[1].has_access
       /\ \A p \in Procs :
            (req[p].pc = "log" /\ req'[p].pc # "log"
               /\ ActiveEntry(ClientIP(req[p].client), whitelist))
            => /\ req'[p].pc = "llm"
               /\ req'[p].free_info[1].has_access
               /\ req'[p].logged = req[p].logged
               /\ ledger' = ledger
               /\ summary' = summary
       /\ \A p \in Procs :
            (Finished(p) /\ resp'.status = 200 /\ resp'.free_info # <<>>
               /\ ActiveEntry(ClientIP(req[p].client), whitelist))
            => resp'.free_info[1].has_access]_vars

\* A request of a whitelisted IP went through log_free_query unrecorded although
\* the ledger alone would turn its caller away.
C3_Witness ==
    \E p \in Procs :
        /\ req[p].pc = "llm"
        /\ req[p].access_type = "free_tier"
        /\ req[p].logged = 0
        /\ req[p].free_info # <<>>
        /\ req[p].free_info[1].whitelisted
        /\ ActiveEntry(ClientIP(req[p].client), whitelist)
        /\ ~quota_status(ClientIP(req[p].client), UserAgent(req[p].client),
                         req[p].free_sid, ledger, now).has_access

\* What the gate of /chat decided for its caller: whether the handler was
\* entered, the session id the request resolved, the tier, the quota status and
\* the tables read.
GateView(entered, c, sid, tier, info, reads) ==
    [entered |-> entered, client |-> c, sid |-> sid, tier |-> tier, info |-> info,
     reads |-> reads]

GateViews ==
    {GateView(TRUE, req'[p].client, req'[p].free_sid, req'[p].access_type,
              req'[p].gate_info, req'[p].reads) : p \in {q \in Procs : Admitted(q)}}
    \cup (IF Turned
          THEN {GateView(resp'.ran, resp'.client,
                         client'[resp'.client].free_session_id, resp'.access_type,
                         resp'.free_info, resp'.reads)}
          ELSE {})

\* C4: at the gate, with a password configured, an unauthenticated caller is let
\* in exactly when check_free_access reports has_access, as free_tier when let in
\* and no_access when not, and the quota status comes back either way; an
\* authenticated caller is let in as authenticated with no quota status and with
\* no table read.
C4_AccessTiers ==
    [][GateStep =>
         \A v \in GateViews :
            /\ (auth_password # NULL /\ ~client[v.client].authenticated) =>
                  LET status == check_free_access(ClientIP(v.client),
                                                  UserAgent(v.client), v.sid,
                                                  ledger, whitelist, now)
                  IN  /\ v.entered <=> status.has_access
                      /\ v.tier = IF status.has_access THEN "free_tier"
                                  ELSE "no_access"
                      /\ v.info = <<status>>
            /\ (auth_password # NULL /\ client[v.client].authenticated) =>
                  /\ v.entered
                  /\ v.tier = "authenticated"
                  /\ v.info = <<>>
                  /\ v.reads = {}]_vars

\* The gate turned one caller away with its quota status while a request it let
\* in as authenticated is in flight.
C4_Witness ==
    /\ resp.endpoint = "chat"
    /\ resp.status = 403
    /\ resp.access_type = "no_access"
    /\ resp.free_info # <<>>
    /\ ~resp.free_info[1].has_access
    /\ \E p \in Procs :
          /\ req[p].pc = "llm"
          /\ req[p].access_type = "authenticated"
          /\ req[p].sess_auth
          /\ req[p].gate_info = <<>>

\* C5: with no AUTH_PASSWORD configured, a /chat request of a caller who has not
\* logged in is handled under the tier no_auth.
C5_NoAuthTier ==
    \A p \in Procs :
        (req[p].pc # "idle" /\ auth_password = NULL /\ ~req[p].sess_auth)
        => req[p].access_type = "no_auth"

AdminEndpoints == {"admin_whitelist_add", "admin_whitelist_remove"}

AdminStep == resp'.endpoint \in AdminEndpoints /\ req' = req /\ nchat' = nchat

\* C6: with a password configured, the whitelist handlers behind login_required
\* never run for a caller whose session is not marked authenticated: the answer
\* is 401 or a redirect and the whitelist stays as it was, whatever the caller's
\* quota or whitelist standing; the whitelist changes only in a step where such a
\* handler ran for an authenticated session.
C6_LoginRequired ==
    [][/\ (AdminStep /\ auth_password # NULL
             /\ ~client[resp'.client].authenticated)
            => /\ ~resp'.ran
               /\ resp'.status \in {401, 302}
               /\ whitelist' = whitelist
       /\ whitelist' # whitelist
            => /\ AdminStep
               /\ resp'.ran
               /\ client[resp'.client].authenticated]_vars

\* A caller with an actively whitelisted IP, not logged in, was rejected by a
\* whitelist handler.
C6_Witness ==
    /\ resp.endpoint \in AdminEndpoints
    /\ ~resp.ran
    /\ resp.status = 401
    /\ ~client[resp.client].authenticated
    /\ ActiveEntry(ClientIP(resp.client), whitelist)
    /\ check_free_access(ClientIP(resp.client), UserAgent(resp.client),
                         client[resp.client].free_session_id, ledger, whitelist,
                         now).has_access

\* The in-window usage recorded under value val of column col.
Usage(col, val) == CountSum(ledger, InWindow(ledger, col, val, now))

\* C7: whatever the interleaving of the gate checks and the later log_free_query
\* calls of the requests in flight, the in-window usage of any session, IP or
\* tracking key never exceeds FREE_QUERY_LIMIT + (MaxInFlight - 1).
C7_TransientOverLimit ==
    \A i \in 1..Len(ledger) :
        \A col \in {"session_id", "ip_address", "tracking_key"} :
            Usage(col, ledger[i][col]) <= FREE_QUERY_LIMIT + (MaxInFlight - 1)

\* Two requests of one caller both passed a gate check showing one query
\* remaining and both logged: the caller stands one over the limit.
C7_Witness ==
    \E p, q \in Procs :
        /\ p # q
        /\ req[p].client = req[q].client
        /\ \A x \in {p, q} :
              /\ req[x].pc = "llm"
              /\ req[x].access_type = "free_tier"
              /\ req[x].gate_info[1].queries_remaining = 1
              /\ req[x].logged = 1
        /\ Usage("session_id", req[p].sid) = FREE_QUERY_LIMIT + 1

\* C8: a /chat request of a non-whitelisted free-tier caller that ends with a
\* successful answer has appended exactly one FreeAccessLog row, with
\* query_count = 1, and a request of an authenticated caller appends none: the
\* ledger grows only by one such row per log_free_query call of a free-tier
\* request.
C8_OneRowPerChat ==
    [][/\ \A p \in Procs :
            (Finished(p) /\ resp'.status = 200 /\ req[p].access_type = "free_tier"
               /\ ~ActiveEntry(ClientIP(req[p].client), whitelist))
            => req[p].logged = 1
       /\ \A p \in Procs :
            (Finished(p) /\ req[p].access_type = "authenticated")
            => req[p].logged = 0
       /\ \A p \in Procs :
            req'[p].logged > req[p].logged
            => /\ req'[p].logged = req[p].logged + 1
               /\ req[p].access_type = "free_tier"
               /\ Len(ledger') = Len(ledger) + 1
               /\ SubSeq(ledger', 1, Len(ledger)) = ledger
               /\ ledger'[Len(ledger')].query_count = 1
               /\ ledger'[Len(ledger')].ip_address = ClientIP(req[p].client)
               /\ ledger'[Len(ledger')].session_id = req[p].sid
       /\ ledger' # ledger
            => \E p \in Procs : req'[p].logged = req[p].logged + 1]_vars

\* A free-tier request of a non-whitelisted caller was answered 200 with its one
\* row in the ledger.
C8_Witness ==
    /\ resp.endpoint = "chat"
    /\ resp.status = 200
    /\ resp.access_type = "free_tier"
    /\ resp.logged = 1
    /\ ~ActiveEntry(ClientIP(resp.client), whitelist)
    /\ ledger # <<>>
    /\ ledger[Len(ledger)].ip_address = ClientIP(resp.client)
    /\ ledger[Len(ledger)].timestamp >= Window

\* C9: a free-tier /chat request whose LLM call failed has committed no
\* FreeAccessLog row.
C9_NoRowOnFailure ==
    (resp.endpoint = "chat" /\ resp.access_type = "free_tier" /\ resp.llm = "failed")
    => resp.logged = 0

\* C10: when the commit of log_free_query fails, the request is answered with an
\* error, the LLM action is not performed and neither the ledger nor the summary
\* changes; and no free-tier request of a non-whitelisted caller is answered 200
\* without its row in the ledger.
C10_FailClosed ==
    [][/\ \A p \in Procs :
            (req[p].pc = "commit" /\ req'[p].pc # "commit" /\ ledger' = ledger)
            => /\ req'[p].pc = "idle"
               /\ resp'.endpoint = "chat"
               /\ resp'.status = 500
               /\ resp'.llm = "none"
               /\ summary' = summary
       /\ \A p \in Procs :
            (Finished(p) /\ resp'.status = 200 /\ req[p].access_type = "free_tier"
               /\ ~ActiveEntry(ClientIP(req[p].client), whitelist))
            => \E i \in 1..Len(ledger) :
                  /\ ledger[i].session_id = req[p].sid
                  /\ ledger[i].ip_address = ClientIP(req[p].client)
                  /\ ledger[i].timestamp = req[p].log_ts]_vars

\* The commit failed on the unique (ip, date) constraint of the summary: the
\* request was answered 500 with no LLM call and no row.
C10_Witness ==
    /\ resp.endpoint = "chat"
    /\ resp.status = 500
    /\ resp.llm = "none"
    /\ resp.access_type = "free_tier"
    /\ resp.logged = 0
    /\ \E s \in summary : s.ip_address = ClientIP(resp.client) /\ s.date = Day(now)

\* A row is counted by a check made at time t when it is at most 24h old.
Counted(row, t) == row.timestamp + Window >= t

WindowSum(col, val, t) ==
    CountSum(ledger, {i \in 1..Len(ledger) : ledger[i][col] = val
                                             /\ Counted(ledger[i], t)})

\* C11: the window slides with the check: each of the three sums a gate check
\* made at time now reports counts exactly the rows whose timestamp is at or
\* after now - 24h, so a row stamped 24h before T is not counted at T + 1s and a
\* row stamped 24h - 1s before T is.
C11_SlidingWindow ==
    [][GateStep =>
         \A v \in GateViews :
            (v.info # <<>> /\ ~v.info[1].whitelisted) =>
               LET tm == v.info[1].tracking_method
               IN  /\ tm.session = WindowSum("session_id", v.sid, now)
                   /\ tm.ip = WindowSum("ip_address", ClientIP(v.client), now)
                   /\ tm.key = WindowSum("tracking_key",
                                         get_tracking_key(ClientIP(v.client),
                                                          UserAgent(v.client)), now)]_vars

\* A check made at T + 1s (T = 24h) let in a session holding one row stamped 0
\* and nine stamped 1s: it counted the nine and not the one.
C11_Witness ==
    \E p \in Procs :
        /\ req[p].pc # "idle"
        /\ now = Window + 1
        /\ req[p].gate_info # <<>>
        /\ ~req[p].gate_info[1].whitelisted
        /\ req[p].gate_info[1].tracking_method.session = 9
        /\ \E i \in 1..Len(ledger) :
              ledger[i].session_id = req[p].free_sid /\ ledger[i].timestamp = 0
        /\ \E i \in 1..Len(ledger) :
              ledger[i].session_id = req[p].free_sid /\ ledger[i].timestamp = 1

\* The rows a table holds for an IP.
RowsOf(W, ip) == {e \in W : e.ip_address = ip}

ValidIPs == {"ip1", "ip2", "ip3"}

\* C12: from every whitelist the endpoints can produce and for every valid IP
\* with an entry, remove_from_whitelist followed by add_to_whitelist of that IP
\* leaves exactly one row for it, the row it had (same id), active, with the
\* description given to the add, is_whitelisted true again, and every other row
\* as it was.
C12_RemoveThenAdd ==
    \A ip \in ValidIPs, d \in Descriptions :
        RowsOf(whitelist, ip) # {} =>
            LET removed == remove_from_whitelist(whitelist, ip)
                added == add_to_whitelist(removed[2], ip, d, "admin")
            IN  /\ removed[1]
                /\ ~is_whitelisted(ip, removed[2])
                /\ added[1]
                /\ Cardinality(RowsOf(added[2], ip)) = 1
                /\ \A e \in RowsOf(added[2], ip) :
                      /\ \E o \in RowsOf(whitelist, ip) : o.id = e.id
                      /\ e.is_active
                      /\ e.description = d
                /\ is_whitelisted(ip, added[2])
                /\ added[2] \ RowsOf(added[2], ip) = whitelist \ RowsOf(whitelist, ip)

\* POST /admin/whitelist re-added ip1 after it had been removed: one active row,
\* carrying the new description, with the key of the first row inserted for it.
C12_Witness ==
    /\ resp.endpoint = "admin_whitelist_add"
    /\ resp.ran
    /\ resp.status = 201
    /\ resp.target = "ip1"
    /\ resp.prior = "inactive"
    /\ Cardinality(RowsOf(whitelist, "ip1")) = 1
    /\ \A e \in RowsOf(whitelist, "ip1") :
          e.is_active /\ e.description = "Lab" /\ e.id = 1
    /\ is_whitelisted("ip1", whitelist)

\* What add_to_whitelist(W, ip, d, cb) must return, case by case.
AddContract(W, ip, d, cb) ==
    LET added == add_to_whitelist(W, ip, d, cb)
        rows == RowsOf(W, ip)
    IN  /\ ip \notin ValidIPs =>
              /\ ~added[1]
              /\ added[3] # NULL
              /\ added[2] = W
        /\ (ip \in ValidIPs /\ rows # {} /\ \A e \in rows : ~e.is_active) =>
              /\ added[1]
              /\ added[2] = (W \ rows)
                            \cup {[e EXCEPT !.is_active = TRUE, !.description = d,
                                            !.created_by = cb] : e \in rows}
        /\ (ip \in ValidIPs /\ rows = {}) =>
              /\ added[1]
              /\ W \subseteq added[2]
              /\ Cardinality(added[2] \ W) = 1
              /\ \A e \in added[2] \ W :
                    /\ e.ip_address = ip
                    /\ e.is_active
                    /\ e.description = d
                    /\ e.created_by = cb
                    /\ \A o \in W : o.id # e.id

\* C13: add_to_whitelist fails with a reason and leaves the whitelist as it was
\* for a malformed IP; for a valid IP with an inactive entry it reactivates that
\* entry and overwrites its description and creator; for a valid IP with no
\* entry it inserts one active entry.  This holds of the function on every
\* whitelist the endpoints produce, and POST /admin/whitelist does to the table
\* what the function returns.
C13_AddToWhitelist ==
    [][/\ \A ip \in ValidIPs \cup {"bad"}, d \in Descriptions, cb \in {"admin", "ops"} :
            AddContract(whitelist, ip, d, cb)
       /\ (resp'.endpoint = "admin_whitelist_add" /\ resp'.ran) =>
             IF resp'.target \in ValidIPs
             THEN /\ resp'.status = 201
                  /\ \E d \in Descriptions :
                        whitelist' = add_to_whitelist(whitelist, resp'.target, d,
                                                      "admin")[2]
                  /\ is_whitelisted(resp'.target, whitelist')
             ELSE /\ resp'.status = 400
                  /\ resp'.message # NULL
                  /\ whitelist' = whitelist]_vars

\* POST /admin/whitelist inserted ip1 beside the inactive entry of ip2, and a
\* malformed address was then refused without a change.
C13_Witness ==
    /\ resp.endpoint = "admin_whitelist_add"
    /\ resp.ran
    /\ resp.status = 400
    /\ resp.prior = "invalid"
    /\ resp.message # NULL
    /\ \E e \in RowsOf(whitelist, "ip1") : e.is_active /\ e.id = 2
    /\ \E e \in RowsOf(whitelist, "ip2") : ~e.is_active /\ e.id = 1
    /\ Cardinality(whitelist) = 2

\* C14: every whitelist-add endpoint answers 400 for a malformed IP, 409 for an
\* IP with an active entry and 201 for an IP it adds; every whitelist-remove
\* endpoint answers 200 when its target exists and 404 when it does not.
C14_StatusCodes ==
    /\ (resp.endpoint \in {"admin_whitelist_add", "api_whitelist_add"} /\ resp.ran)
          => resp.status = CASE resp.prior = "invalid" -> 400
                             [] resp.prior = "active" -> 409
                             [] OTHER -> 201
    /\ (resp.endpoint \in {"admin_whitelist_remove", "api_whitelist_remove"}
          /\ resp.ran)
          => resp.status = IF resp.prior \in {"none", "invalid"} THEN 404 ELSE 200

\* C15: the ledger is append-only: whatever request is served (/chat, /auth/*,
\* /admin/whitelist, DELETE /api/activity-log), every FreeAccessLog row committed
\* before the step is still there after it, in place and unchanged.
C15_AppendOnly ==
    [][/\ Len(ledger') >= Len(ledger)
       /\ SubSeq(ledger', 1, Len(ledger)) = ledger]_vars

\* DELETE /api/activity-log was answered with success after a free-tier chat
\* had added an eleventh row, and all eleven rows are there.
C15_Witness ==
    /\ resp.endpoint = "api_activity_log_clear"
    /\ resp.ran
    /\ resp.status = 200
    /\ Len(ledger) = Len(HistTen) + 1
    /\ SubSeq(ledger, 1, Len(HistTen)) = HistTen

\* C16: every identity get_user_identity resolves is well formed: authenticated
\* with a user_id and no session_id, or free with no user_id and a session
\* token.
C16_WellFormedIdentity ==
    resp.identity # <<>> =>
        LET who == resp.identity[1]
        IN  \/ /\ who.type = "authenticated"
               /\ who.user_id # NullUser
               /\ who.session_id = NULL
            \/ /\ who.type = "free"
               /\ who.user_id = NullUser
               /\ who.session_id # NULL

\* C17: every stored Conversation carries exactly one owner field: user_id and
\* no session_id when created by an authenticated identity, session_id and no
\* user_id when created by an anonymous one; none has both fields null.
C17_OneOwnerField ==
    \A cv \in conversations :
        /\ cv.created_as.type = "authenticated" =>
              cv.user_id # NullUser /\ cv.session_id = NULL
        /\ cv.created_as.type = "free" =>
              cv.session_id # NULL /\ cv.user_id = NullUser
        /\ ~(cv.user_id = NullUser /\ cv.session_id = NULL)

\* C18: every endpoint that addresses one Conversation by its id serves the
\* request only when the caller's resolved identity owns that Conversation:
\* a caller who knows the id of another identity's Conversation neither reads
\* nor writes it.
ByIdEndpoints == {"get_messages", "get_conversation_tags", "add_conversation_tags"}

C18_OwnerOnlyById ==
    (resp.endpoint \in ByIdEndpoints /\ resp.ran)
        => \A cv \in resp.listed :
               check_conversation_access(cv, resp.identity[1])

\* C19: after any interleaving of log_free_query calls, every (ip, day) has at
\* most one ip_usage_summary row, and its total_queries is the number of
\* free_access_logs rows committed for that IP on that day: concurrent calls
\* for one IP lose no increment.
C19_SummaryMatchesLedger ==
    /\ \A s, t \in summary :
          (s.ip_address = t.ip_address /\ s.date = t.date) => s = t
    /\ \A s \in summary :
          s.total_queries = day_total(ledger, s.ip_address, s.date)
    /\ \A i \in 1..Len(ledger) :
          \E s \in summary : /\ s.ip_address = ledger[i].ip_address
                             /\ s.date = Day(ledger[i].timestamp)

\* C20: whatever whitelist request is served (add, remove or reactivation
\* through /admin/whitelist or /api/ip-whitelist, with concurrent inserts), the
\* table afterwards holds at most one entry per IP address, every entry that was
\* there is still there under its id and address, and a removal changes nothing
\* but is_active, which it sets to false.
RemoveEndpoints == {"admin_whitelist_remove", "api_whitelist_remove"}

C21_LookupFailsClosed ==
    resp.prior = "unavailable"
        => /\ resp.free_info # <<>>
           /\ \A info \in {resp.free_info[i] : i \in 1..Len(resp.free_info)} :
                 /\ ~info.whitelisted
                 /\ info.limit = FREE_QUERY_LIMIT
                 /\ info.queries_remaining
                        = Max(0, FREE_QUERY_LIMIT - info.queries_used)
           /\ resp.status # 500

\* C22: the status log_free_query returns for a non-whitelisted caller counts
\* the row it has just committed: its queries_used is one more than what
\* check_free_access gives the same caller on the state just before the commit,
\* and its queries_remaining is max(0, FREE_QUERY_LIMIT - queries_used).
Logged(p) == req[p].pc = "commit" /\ req'[p].pc = "llm"

C22_FreshStatus ==
    [][\A p \in Procs :
          Logged(p)
          => LET c == req[p].client
                 before == check_free_access(ClientIP(c), UserAgent(c), req[p].sid,
                                             ledger, whitelist, now)
                 after == req'[p].free_info[1]
             IN  ~before.whitelisted
                 => /\ after.queries_used = before.queries_used + 1
                    /\ after.queries_remaining
                          = Max(0, FREE_QUERY_LIMIT - after.queries_used)
                    /\ after.has_access = (after.queries_remaining > 0)]_vars

\* A caller admitted at nine queries used has its tenth logged: the status
\* returned counts ten used and none remaining.
C22_Witness ==
    \E p \in Procs :
        /\ req[p].pc = "llm"
        /\ req[p].logged = 1
        /\ req[p].gate_info # <<>>
        /\ req[p].gate_info[1].queries_used = FREE_QUERY_LIMIT - 1
        /\ req[p].free_info[1].queries_used = FREE_QUERY_LIMIT
        /\ req[p].free_info[1].queries_remaining = 0
        /\ ~req[p].free_info[1].has_access

\* C23: the session token in the row log_free_query appends is the session
\* token of the anonymous identity get_user_identity resolves for the same
\* request, also when the request carries a session_id cookie.
RequestIdentity(p) ==
    get_user_identity(auth_password,
                      [authenticated |-> req[p].sess_auth,
                       free_session_id |-> req[p].free_sid],
                      client[req[p].client].cookie_sid,
                      ClientIP(req[p].client))

C23_LedgerChargesIdentity ==
    [][\A p \in Procs :
          Logged(p)
          => /\ Len(ledger') = Len(ledger) + 1
             /\ ledger'[Len(ledger')].session_id = RequestIdentity(p).session_id]_vars

C25_SequentialWithinLimit ==
    \A i \in 1..Len(ledger) :
        \A col \in {"session_id", "ip_address", "tracking_key"} :
            Usage(col, ledger[i][col]) <= FREE_QUERY_LIMIT

\* A request admitted at nine queries used has been logged and answered: its
\* IP stands exactly at the limit.
C25_Witness ==
    /\ resp.endpoint = "chat"
    /\ resp.status = 200
    /\ resp.access_type = "free_tier"
    /\ resp.logged = 1
    /\ Len(ledger) = Len(HistNine) + 1
    /\ Usage("ip_address", "ip1") = FREE_QUERY_LIMIT

\* C26: with a password configured, the handlers declared with
\* access_required(allow_free=False) (the /api/ip-whitelist endpoints) never run
\* for a caller who is not logged in, so such a caller changes no whitelist
\* entry.
ApiWhitelistEndpoints == {"api_whitelist_add", "api_whitelist_remove"}

C26_FreeTierKeptOut ==
    (/\ is_auth_enabled(auth_password)
     /\ resp.endpoint \in ApiWhitelistEndpoints
     /\ ~resp.sess_auth)
        => /\ ~resp.ran
           /\ resp.access_type # "free_tier"

\* C27: every status check_free_access returns for a non-whitelisted caller (at
\* the gate and from log_free_query) has reset_time equal to the time of the
\* check and hours_until_reset 0, and the denial message of access_required
\* announces a reset in 0 minutes, whatever the age of the caller's rows.
StatusesReturned ==
    {v.info : v \in GateViews}
        \cup {req'[p].free_info : p \in {q \in Procs : Logged(q)}}

C27_ResetIsNow ==
    [][/\ \A info \in StatusesReturned :
             (info # <<>> /\ ~info[1].whitelisted)
             => /\ info[1].reset_time = now
                /\ info[1].hours_until_reset = 0
       /\ (Turned /\ resp'.status = 403 /\ resp'.free_info # <<>>)
             => /\ ~resp'.free_info[1].whitelisted
                /\ denial_message(resp'.free_info)
                      = [text |-> "Daily free queries exhausted. Access will reset in",
                         hours |-> 0, minutes |-> 0, with_hours |-> FALSE]]_vars

\* A caller whose ten rows are all inside the window, the oldest about to leave
\* it, is denied with a reset announced for the moment of the check.
C27_Witness ==
    /\ resp.endpoint = "chat"
    /\ resp.status = 403
    /\ resp.free_info # <<>>
    /\ resp.free_info[1].queries_used = FREE_QUERY_LIMIT
    /\ resp.free_info[1].reset_time = now
    /\ now = Window
    /\ \E i \in 1..Len(ledger) : ledger[i].timestamp = now - Window
    /\ \E i \in 1..Len(ledger) : ledger[i].timestamp = now - Window + 1

\* C28: for every identity a browser can resolve to and every stored
\* conversation, check_conversation_access grants access exactly when
\* filter_conversations_by_user returns that conversation for the identity,
\* the anonymous identity with a null session token included.
Identities == {Identity(c) : c \in Clients}

AllowFreeEndpoints == {"chat", "stability_edit_image"}

C29_AllowFreeCharges ==
    (/\ resp.endpoint \in AllowFreeEndpoints
     /\ resp.status = 200
     /\ resp.access_type = "free_tier"
     /\ resp.free_info # <<>>
     /\ ~resp.free_info[1].whitelisted)
        => resp.logged = 1

\* C30: a check_free_access made on its own (GET /auth/status) and a request
\* denied by access_required leave the stored state as it was: no FreeAccessLog
\* row is appended, no IPUsageSummary row is created or changed, no whitelist
\* entry changes, and the wrapped handler does not run.
Denied == Turned /\ ~resp'.ran

C30_ChecksWriteNothing ==
    [][/\ (Denied \/ AuthStatusStep)
             => /\ ledger' = ledger
                /\ summary' = summary
                /\ whitelist' = whitelist
                /\ conversations' = conversations
       /\ Denied
             => /\ resp'.status \in {403, 302}
                /\ resp'.access_type = "no_access"
                /\ resp'.llm = "none"
                /\ resp'.logged = 0]_vars

\* A caller with ten rows in the window was denied at the gate of /chat, and
\* the ledger and the summary are as they were at the start.
C30_Witness ==
    /\ resp.endpoint = "chat"
    /\ resp.status = 403
    /\ ~resp.ran
    /\ resp.free_info # <<>>
    /\ resp.free_info[1].queries_used = FREE_QUERY_LIMIT
    /\ ledger = HistTen
    /\ summary = summary_of(HistTen)
====
